---------------------------- MODULE Spec2Model ----------------------------
(***************************************************************************)
(* The 8-bit machine: the two-pass assembler of src/asm.py and the CPU of  *)
(* src/emulator.py, with the monitor commands that drive it.               *)
(*                                                                         *)
(* Text is a sequence of one-character strings; a source program is a      *)
(* sequence of such lines.  Bytes are integers in 0..255.                  *)
(***************************************************************************)
EXTENDS Integers, Sequences, FiniteSets, TLC

VARIABLES
    \* ---- assembler (asm.py, assemble) ----
    src,        \* the source lines handed to assemble
    phase,      \* position in assemble: "idle", "pass1", "pass2", "done", "error"
    idx,        \* index of the next line (pass 1) or parsed instruction (pass 2)
    asm_pc,     \* assemble's local pc (pass 1 byte counter)
    labels,     \* label table: name -> address
    parsed,     \* list of [addr, op, args]
    out,        \* pass 2's byte list
    result,     \* what assemble gave its caller: [ok, bytes, err]
    \* ---- CPU (emulator.py, class CPU) ----
    ram, reg, pc, zero, running, trace,
    \* ---- environment of the CPU ----
    ctl,        \* position of the monitor: "prompt", "run", "crashed"
    stdout,     \* characters written by OUT (the first MaxOut of them)
    last,       \* the last command performed and what its step reported
    nloads,     \* number of load commands issued in the session
    nsteps      \* number of step commands issued in the session

asmVars == <<src, phase, idx, asm_pc, labels, parsed, out, result>>
cpuVars == <<ram, reg, pc, zero, running, trace>>
envVars == <<ctl, stdout, last, nloads, nsteps>>
vars == <<src, phase, idx, asm_pc, labels, parsed, out, result,
          ram, reg, pc, zero, running, trace, ctl, stdout, last, nloads, nsteps>>

---------------------------------------------------------------------------
(* Characters and the Python string operations the assembler uses.        *)

\* ASCII 32..126 in order; Printable[i] has code 31 + i (the grave accent,
\* code 96, is not a character the lexer accepts: its slot holds a placeholder).
Printable ==
    << " ", "!", "\"", "#", "$", "%", "&", "'", "(", ")", "*", "+", ",", "-", ".", "/",
       "0", "1", "2", "3", "4", "5", "6", "7", "8", "9", ":", ";", "<", "=", ">", "?",
       "@", "A", "B", "C", "D", "E", "F", "G", "H", "I", "J", "K", "L", "M", "N", "O",
       "P", "Q", "R", "S", "T", "U", "V", "W", "X", "Y", "Z", "[", "\\", "]", "^", "_",
       "<96>", "a", "b", "c", "d", "e", "f", "g", "h", "i", "j", "k", "l", "m", "n", "o",
       "p", "q", "r", "s", "t", "u", "v", "w", "x", "y", "z", "{", "|", "}", "~" >>

ord(c) ==
    IF c = "\t" THEN 9
    ELSE IF c = "\n" THEN 10
    ELSE 31 + (CHOOSE i \in 1..Len(Printable) : Printable[i] = c)

\* chr for the codes of the table; any other code is shown as an escape.
chr(n) ==
    IF n = 9 THEN "\t"
    ELSE IF n = 10 THEN "\n"
    ELSE IF n \in 32..126 THEN Printable[n - 31]
    ELSE "\\x" \o ToString(n)

IsLower(c) == ord(c) \in 97..122

upper(s) == [k \in 1..Len(s) |-> IF IsLower(s[k]) THEN chr(ord(s[k]) - 32) ELSE s[k]]

IsSpace(c) == c \in {" ", "\t", "\n"}

RECURSIVE lstrip(_)
lstrip(s) == IF s # <<>> /\ IsSpace(Head(s)) THEN lstrip(Tail(s)) ELSE s

RECURSIVE rstrip(_)
rstrip(s) ==
    IF s # <<>> /\ IsSpace(s[Len(s)]) THEN rstrip(SubSeq(s, 1, Len(s) - 1)) ELSE s

strip(s) == rstrip(lstrip(s))

\* s.rstrip(comma): drop trailing commas
RECURSIVE rstripComma(_)
rstripComma(s) ==
    IF s # <<>> /\ s[Len(s)] = "," THEN rstripComma(SubSeq(s, 1, Len(s) - 1)) ELSE s

startswith(s, p) == Len(s) >= Len(p) /\ SubSeq(s, 1, Len(p)) = p

endswith(s, p) == Len(s) >= Len(p) /\ SubSeq(s, Len(s) - Len(p) + 1, Len(s)) = p

\* s.split(sep) for a one-character sep: always at least one piece
RECURSIVE splitFrom(_, _, _, _)
splitFrom(s, sep, k, cur) ==
    IF k > Len(s) THEN <<cur>>
    ELSE IF s[k] = sep THEN <<cur>> \o splitFrom(s, sep, k + 1, <<>>)
    ELSE splitFrom(s, sep, k + 1, Append(cur, s[k]))

split(s, sep) == splitFrom(s, sep, 1, <<>>)

\* sep.join(parts)
RECURSIVE join(_, _)
join(sep, parts) ==
    IF parts = <<>> THEN <<>>
    ELSE IF Len(parts) = 1 THEN parts[1]
    ELSE parts[1] \o sep \o join(sep, Tail(parts))

\* the text before the first semicolon
RECURSIVE beforeSemi(_)
beforeSemi(s) ==
    IF s = <<>> \/ Head(s) = ";" THEN <<>> ELSE <<Head(s)>> \o beforeSemi(Tail(s))

IsDigit(c) == ord(c) \in 48..57

\* str.isdigit(): non-empty, all digits
isdigit(s) == s # <<>> /\ \A k \in 1..Len(s) : IsDigit(s[k])

IsHex(c) == IsDigit(c) \/ ord(c) \in 65..70 \/ ord(c) \in 97..102

HexVal(c) ==
    IF IsDigit(c) THEN ord(c) - 48
    ELSE IF ord(c) \in 65..70 THEN ord(c) - 55
    ELSE ord(c) - 87

\* value of a digit string in the given base
RECURSIVE digitsVal(_, _)
digitsVal(s, base) ==
    IF s = <<>> THEN 0
    ELSE digitsVal(SubSeq(s, 1, Len(s) - 1), base) * base + HexVal(s[Len(s)])

\* x & 0xFF on a Python int (two's complement of unbounded width)
And255(x) == x % 256

---------------------------------------------------------------------------
(* asm.py: the tables, tokenize and parse_value.                          *)

\* The memory size both tools reduce bytes and addresses by.
RAM_SIZE == 256

\* AsmOP with the opcodes of JZ and JNZ exchanged
AsmOP_swapped(m) ==
    CASE m = <<"N","O","P">> -> 0
      [] m = <<"L","D","I">> -> 16
      [] m = <<"M","O","V">> -> 17
      [] m = <<"S","T","R">> -> 18
      [] m = <<"A","D","D">> -> 32
      [] m = <<"S","U","B">> -> 33
      [] m = <<"J","M","P">> -> 48
      [] m = <<"J","Z">>     -> 50
      [] m = <<"J","N","Z">> -> 49
      [] m = <<"O","U","T">> -> 64
      [] m = <<"I","N">>     -> 65
      [] m = <<"H","L","T">> -> 255

\* OP of asm.py: mnemonic -> opcode byte
AsmOP(m) ==
    CASE m = <<"N","O","P">> -> 0
      [] m = <<"L","D","I">> -> 16
      [] m = <<"M","O","V">> -> 17
      [] m = <<"S","T","R">> -> 18
      [] m = <<"A","D","D">> -> 32
      [] m = <<"S","U","B">> -> 33
      [] m = <<"J","M","P">> -> 48
      [] m = <<"J","Z">>     -> 49
      [] m = <<"J","N","Z">> -> 50
      [] m = <<"O","U","T">> -> 64
      [] m = <<"I","N">>     -> 65
      [] m = <<"H","L","T">> -> 255

\* REGS of asm.py: the register names and their selectors
REGS == (<<"A">> :> 0) @@ (<<"B">> :> 1)

\* the character loop of tokenize: k is the position in line l
RECURSIVE tokenScan(_, _, _, _, _, _)
tokenScan(l, k, tokens, current, in_quote, quote_char) ==
    IF k > Len(l)
    THEN IF current # <<>> THEN Append(tokens, current) ELSE tokens
    ELSE LET ch == l[k] IN
         IF in_quote
         THEN tokenScan(l, k + 1, tokens, Append(current, ch),
                        ch # quote_char, quote_char)
         ELSE IF ch \in {"\"", "'"}
         THEN tokenScan(l, k + 1, tokens, Append(current, ch), TRUE, ch)
         ELSE IF ch \in {" ", "\t", ","}
         THEN IF current # <<>>
              THEN tokenScan(l, k + 1, Append(tokens, current), <<>>, FALSE, quote_char)
              ELSE tokenScan(l, k + 1, tokens, current, FALSE, quote_char)
         ELSE tokenScan(l, k + 1, tokens, Append(current, ch), FALSE, quote_char)

tokenize(line) ==
    LET l == strip(beforeSemi(line))
    IN  IF l = <<>> THEN <<>> ELSE tokenScan(l, 1, <<>>, <<>>, FALSE, "")

\* A raised exception, or a value.
Raise(e) == [ok |-> FALSE, val |-> 0, err |-> e]
Value(v) == [ok |-> TRUE, val |-> v, err |-> ""]

\* int(token, 16) for a token that starts with 0x (hexadecimal digits only:
\* no source here holds an underscore, a sign or blanks inside a number)
intHex(token) ==
    LET digits == SubSeq(token, 3, Len(token))
    IN  IF digits # <<>> /\ \A k \in 1..Len(digits) : IsHex(digits[k])
        THEN Value(digitsVal(digits, 16))
        ELSE Raise("ValueError: invalid literal")

\* int(token, 10) & 0xFF for a token that passed the isdigit test
intDec(token) ==
    IF startswith(token, <<"-">>)
    THEN And255(0 - digitsVal(Tail(token), 10))
    ELSE And255(digitsVal(token, 10))

parse_value(token0, labs) ==
    LET token == strip(token0)
    IN  IF startswith(token, <<"'">>) /\ endswith(token, <<"'">>) /\ Len(token) = 3
        THEN Value(ord(token[2]))
        ELSE IF startswith(token, <<"0", "x">>)
        THEN intHex(token)
        ELSE IF isdigit(token) \/ (startswith(token, <<"-">>) /\ isdigit(Tail(token)))
        THEN Value(intDec(token))
        ELSE IF token \in DOMAIN labs
        THEN Value(labs[token])
        ELSE Raise("ValueError: Unknown value")

---------------------------------------------------------------------------
(* asm.py, assemble: what one iteration of each pass computes.            *)

DB == <<"D", "B">>

\* Pass 1's size estimate for an instruction; -1 stands for the raise of
\* "Unknown op".
InstrSize(op, toks) ==
    IF op = DB
    THEN Len(split(join(<<" ">>, Tail(toks)), ","))
    ELSE IF op \in {<<"L","D","I">>, <<"M","O","V">>, <<"S","T","R">>} THEN 3
    ELSE IF op \in {<<"A","D","D">>, <<"S","U","B">>} THEN 3
    ELSE IF op \in {<<"J","M","P">>, <<"J","Z">>, <<"J","N","Z">>} THEN 2
    ELSE IF op \in {<<"O","U","T">>, <<"I","N">>} THEN 2
    ELSE IF op \in {<<"N","O","P">>, <<"H","L","T">>} THEN 1
    ELSE -1

\* How pass 1 reads one raw line: "skip", "label" or "instr".
LineKind(raw) ==
    LET line == strip(raw)
    IN  IF line = <<>> \/ startswith(line, <<";">>) THEN "skip"
        ELSE IF endswith(line, <<":">>) THEN "label"
        ELSE IF tokenize(line) = <<>> THEN "skip"
        ELSE "instr"

\* the name a label line defines
LabelName(raw) ==
    LET line == strip(raw) IN strip(SubSeq(line, 1, Len(line) - 1))

\* BindLabel keeping the first definition of a label
BindLabel_first(labs, lbl, addr) ==
    IF lbl \in DOMAIN labs THEN labs
    ELSE [n \in (DOMAIN labs) \cup {lbl} |-> IF n = lbl THEN addr ELSE labs[n]]

\* labels[lbl] = pc
BindLabel(labs, lbl, addr) ==
    [n \in (DOMAIN labs) \cup {lbl} |-> IF n = lbl THEN addr ELSE labs[n]]

\* A pass-2 outcome: the bytes appended for one instruction, or a raise.
Bytes(bs) == [ok |-> TRUE, bytes |-> bs, err |-> ""]
Fail(e) == [ok |-> FALSE, bytes |-> <<>>, err |-> e]

\* REGS[reg]
LookupReg(r) == IF r \in DOMAIN REGS THEN Value(REGS[r]) ELSE Raise("KeyError")

\* the data tokens of a DB line: each argument split on commas, empties dropped
RECURSIVE nonEmpty(_)
nonEmpty(parts) ==
    IF parts = <<>> THEN <<>>
    ELSE IF Head(parts) # <<>> THEN <<Head(parts)>> \o nonEmpty(Tail(parts))
    ELSE nonEmpty(Tail(parts))

RECURSIVE dataTokens(_)
dataTokens(args) ==
    IF args = <<>> THEN <<>>
    ELSE nonEmpty(split(Head(args), ",")) \o dataTokens(Tail(args))

\* the bytes of one DB data token
EncodeData(tok0, labs) ==
    LET tok == strip(tok0)
    IN  IF startswith(tok, <<"\"">>) /\ endswith(tok, <<"\"">>)
        THEN LET s == SubSeq(tok, 2, Len(tok) - 1)
             IN  Bytes([k \in 1..Len(s) |-> And255(ord(s[k]))])
        ELSE LET v == parse_value(tok, labs)
             IN  IF v.ok THEN Bytes(<<And255(v.val)>>) ELSE Fail(v.err)

RECURSIVE EncodeDB(_, _)
EncodeDB(toks, labs) ==
    IF toks = <<>> THEN Bytes(<<>>)
    ELSE LET h == EncodeData(Head(toks), labs)
         IN  IF ~h.ok THEN h
             ELSE LET t == EncodeDB(Tail(toks), labs)
                  IN  IF ~t.ok THEN t ELSE Bytes(h.bytes \o t.bytes)

\* opcode, register, immediate or address: LDI, MOV, STR
EncodeRegVal(o, args, labs) ==
    IF Len(args) < 2 THEN Fail("IndexError")
    ELSE LET r == LookupReg(upper(rstripComma(strip(args[1]))))
             v == parse_value(strip(args[2]), labs)
         IN  IF ~r.ok THEN Fail(r.err)
             ELSE IF ~v.ok THEN Fail(v.err)
             ELSE Bytes(<<AsmOP(o), r.val, And255(v.val)>>)

\* opcode, register, register: ADD, SUB
EncodeRegReg(o, args) ==
    IF Len(args) < 2 THEN Fail("IndexError")
    ELSE LET r1 == LookupReg(upper(rstripComma(strip(args[1]))))
             r2 == LookupReg(upper(strip(args[2])))
         IN  IF ~r1.ok THEN Fail(r1.err)
             ELSE IF ~r2.ok THEN Fail(r2.err)
             ELSE Bytes(<<AsmOP(o), r1.val, r2.val>>)

\* EncodeJump without the reduction of the address
EncodeJump_unreduced(o, args, labs) ==
    IF Len(args) < 1 THEN Fail("IndexError")
    ELSE LET v == parse_value(strip(args[1]), labs)
         IN  IF ~v.ok THEN Fail(v.err) ELSE Bytes(<<AsmOP(o), v.val>>)

\* opcode, address: JMP, JZ, JNZ
EncodeJump(o, args, labs) ==
    IF Len(args) < 1 THEN Fail("IndexError")
    ELSE LET v == parse_value(strip(args[1]), labs)
         IN  IF ~v.ok THEN Fail(v.err) ELSE Bytes(<<AsmOP(o), And255(v.val)>>)

\* opcode, register: OUT, IN
EncodeReg(o, args) ==
    IF Len(args) < 1 THEN Fail("IndexError")
    ELSE LET r == LookupReg(upper(strip(args[1])))
         IN  IF ~r.ok THEN Fail(r.err) ELSE Bytes(<<AsmOP(o), r.val>>)

\* One iteration of pass 2: the bytes it appends to out, or the raise.
Encode(o, args, labs) ==
    IF o = DB THEN EncodeDB(dataTokens(args), labs)
    ELSE IF o \in {<<"L","D","I">>, <<"M","O","V">>, <<"S","T","R">>}
    THEN EncodeRegVal(o, args, labs)
    ELSE IF o \in {<<"A","D","D">>, <<"S","U","B">>} THEN EncodeRegReg(o, args)
    ELSE IF o \in {<<"J","M","P">>, <<"J","Z">>, <<"J","N","Z">>}
    THEN EncodeJump(o, args, labs)
    ELSE IF o \in {<<"O","U","T">>, <<"I","N">>} THEN EncodeReg(o, args)
    ELSE IF o \in {<<"N","O","P">>, <<"H","L","T">>} THEN Bytes(<<AsmOP(o)>>)
    ELSE Fail("ValueError: Unhandled op")

---------------------------------------------------------------------------
(* Source lines the assembler is run on.                                  *)

\* DB 0x41, 0x42
L_DB_two == <<"D","B"," ","0","x","4","1",","," ","0","x","4","2">>

\* DB
L_DB_none == <<"D","B">>

\* DB "AB"
L_DB_str == <<"D","B"," ","\"","A","B","\"">>

\* DB 7
L_DB_one == <<"D","B"," ","7">>

\* end:
L_end == <<"e","n","d",":">>

\* JMP end
L_JMP_end == <<"J","M","P"," ","e","n","d">>

\* HLT
L_HLT == <<"H","L","T">>

\* XYZ
L_XYZ == <<"X","Y","Z">>

\* LDI C,5
L_LDI_C == <<"L","D","I"," ","C",",","5">>

\* JMP nowhere
L_JMP_nowhere == <<"J","M","P"," ","n","o","w","h","e","r","e">>

\* LDI A,65
L_LDI_A65 == <<"L","D","I"," ","A",",","6","5">>

\* mov b, 0x10
L_mov_lower == <<"m","o","v"," ","b",","," ","0","x","1","0">>

\* XYZ ; bad:
L_XYZ_cmt == <<"X","Y","Z"," ",";"," ","b","a","d",":">>

\* JMP t
L_JMP_t == <<"J","M","P"," ","t">>

\* t:
L_t == <<"t",":">>

\* NOP
L_NOP == <<"N","O","P">>

\*   LDI A, t
L_LDI_At == <<" "," ","L","D","I"," ","A",","," ","t">>

\* JZ t ; branch
L_JZ_t == <<"J","Z"," ","t"," ",";"," ","b","r","a","n","c","h">>

\* OUT A
L_OUT_A == <<"O","U","T"," ","A">>

\* DB "a,b"
L_DB_acb == <<"D","B"," ","\"","a",",","b","\"">>

\* DB ','
L_DB_comma == <<"D","B"," ","'",",","'">>

\* DB "a b"
L_DB_aspb == <<"D","B"," ","\"","a"," ","b","\"">>

\* LDI A,-1
L_LDI_neg == <<"L","D","I"," ","A",",","-","1">>

\* LDI A,0x1FF
L_LDI_hex == <<"L","D","I"," ","A",",","0","x","1","F","F">>

\* JMP 0x1FF
L_JMP_hex == <<"J","M","P"," ","0","x","1","F","F">>

\* LDI B,'A'
L_LDI_chr == <<"L","D","I"," ","B",",","'","A","'">>

\* DB -1
L_DB_neg == <<"D","B"," ","-","1">>

\* STR A,300
L_STR_dec == <<"S","T","R"," ","A",",","3","0","0">>

\* big:
L_big == <<"b","i","g",":">>

\* JMP big
L_JMP_big == <<"J","M","P"," ","b","i","g">>

\* HLT ; stop:
L_HLT_stop == <<"H","L","T"," ",";"," ","s","t","o","p",":">>

\* start: ; entry
L_start_entry == <<"s","t","a","r","t",":"," ",";"," ","e","n","t","r","y">>

\* JMP start
L_JMP_start == <<"J","M","P"," ","s","t","a","r","t">>

\* NOP ; pad
L_NOP_pad == <<"N","O","P"," ",";"," ","p","a","d">>

\* DB lines with several values, no value and a string, around a label
PoolDB == {L_DB_two, L_DB_none, L_DB_str, L_DB_one, L_end, L_JMP_end, L_HLT}

\* lines with an unknown mnemonic, register or symbol, among valid lines
PoolErr == {L_XYZ, L_LDI_C, L_JMP_nowhere, L_LDI_A65, L_mov_lower, L_XYZ_cmt, L_HLT}

\* references to a label before and after its definitions
PoolLbl == {L_JMP_t, L_t, L_NOP, L_LDI_At, L_JZ_t, L_OUT_A}

\* the longest source, in lines
MaxLines == 3

SeqsUpTo(P, n) == UNION {[1..k -> P] : k \in 1..n}

\* DB lines whose operand is quoted text holding a comma or a blank
PoolQuote == {L_DB_acb, L_DB_comma, L_DB_aspb, L_HLT}

\* operands that are negative, above 255, or a character
PoolNum == {L_LDI_neg, L_LDI_hex, L_JMP_hex, L_LDI_chr, L_DB_neg, L_STR_dec}

\* lines that end in a comment
PoolCmt == {L_HLT_stop, L_start_entry, L_JMP_start, L_NOP_pad}

\* the number of three-byte instructions before the label of LongProg
LongLen == 86

\* a program longer than memory: the label big is at byte 3 * LongLen
LongProg == [k \in 1..LongLen |-> L_LDI_A65] \o <<L_big, L_JMP_big>>

AsmSources ==
    SeqsUpTo(PoolDB, MaxLines) \cup SeqsUpTo(PoolErr, MaxLines)
        \cup SeqsUpTo(PoolLbl, MaxLines) \cup SeqsUpTo(PoolQuote, MaxLines)
        \cup SeqsUpTo(PoolNum, MaxLines) \cup SeqsUpTo(PoolCmt, MaxLines)
        \cup {LongProg}

---------------------------------------------------------------------------
(* asm.py, assemble(lines) as a state machine: one action per loop        *)
(* iteration.                                                             *)

NoResult == [ok |-> FALSE, bytes |-> <<>>, err |-> "none"]

\* entry of assemble: labels = {}, pc = 0, parsed = []
AsmEntry(lines) ==
    /\ src = lines
    /\ phase = "pass1"
    /\ idx = 1
    /\ asm_pc = 0
    /\ labels = << >>
    /\ parsed = << >>
    /\ out = << >>
    /\ result = NoResult

\* no assembly in progress
AsmIdle ==
    /\ src = << >>
    /\ phase = "idle"
    /\ idx = 1
    /\ asm_pc = 0
    /\ labels = << >>
    /\ parsed = << >>
    /\ out = << >>
    /\ result = NoResult

\* one iteration of the first loop
Pass1Line ==
    /\ phase = "pass1"
    /\ idx <= Len(src)
    /\ idx' = idx + 1
    /\ LET raw  == src[idx]
           kind == LineKind(raw)
       IN  CASE kind = "skip" ->
                  UNCHANGED <<phase, asm_pc, labels, parsed, result>>
             [] kind = "label" ->
                  /\ labels' = BindLabel(labels, LabelName(raw), asm_pc)
                  /\ UNCHANGED <<phase, asm_pc, parsed, result>>
             [] kind = "instr" ->
                  LET toks == tokenize(strip(raw))
                      op   == upper(toks[1])
                      size == InstrSize(op, toks)
                  IN  /\ parsed' = Append(parsed,
                                     [addr |-> asm_pc, op |-> op, args |-> Tail(toks)])
                      /\ UNCHANGED labels
                      /\ IF size < 0
                         THEN /\ phase' = "error"
                              /\ result' = Fail("ValueError: Unknown op")
                              /\ UNCHANGED asm_pc
                         ELSE /\ asm_pc' = asm_pc + size
                              /\ UNCHANGED <<phase, result>>
    /\ UNCHANGED <<src, out>>

\* the first loop is over: out = []
StartPass2 ==
    /\ phase = "pass1"
    /\ idx > Len(src)
    /\ phase' = "pass2"
    /\ idx' = 1
    /\ out' = << >>
    /\ UNCHANGED <<src, asm_pc, labels, parsed, result>>

\* one iteration of the second loop
Pass2Instr ==
    /\ phase = "pass2"
    /\ idx <= Len(parsed)
    /\ LET e == Encode(parsed[idx].op, parsed[idx].args, labels)
       IN  IF e.ok
           THEN /\ out' = out \o e.bytes
                /\ idx' = idx + 1
                /\ UNCHANGED <<phase, result>>
           ELSE /\ phase' = "error"
                /\ result' = Fail(e.err)
                /\ UNCHANGED <<out, idx>>
    /\ UNCHANGED <<src, asm_pc, labels, parsed>>

\* return bytes(out): bytes raises a ValueError on an element outside 0..255
AsmReturn ==
    /\ phase = "pass2"
    /\ idx > Len(parsed)
    /\ IF \A k \in 1..Len(out) : out[k] \in 0..(RAM_SIZE - 1)
       THEN /\ phase' = "done"
            /\ result' = Bytes(out)
       ELSE /\ phase' = "error"
            /\ result' = Fail("ValueError: bytes must be in range(0, 256)")
    /\ UNCHANGED <<src, idx, asm_pc, labels, parsed, out>>

---------------------------------------------------------------------------
(* asm.py, assemble(lines) as a function of the source: the same          *)
(* iterations, composed.                                                  *)

\* the first loop from line k on, with the counter, table and list so far
RECURSIVE Pass1(_, _, _, _, _)
Pass1(lines, k, cnt, labs, prs) ==
    IF k > Len(lines) THEN [ok |-> TRUE, labels |-> labs, parsed |-> prs]
    ELSE LET raw  == lines[k]
             kind == LineKind(raw)
         IN  CASE kind = "skip" -> Pass1(lines, k + 1, cnt, labs, prs)
               [] kind = "label" ->
                    Pass1(lines, k + 1, cnt, BindLabel(labs, LabelName(raw), cnt), prs)
               [] kind = "instr" ->
                    LET toks == tokenize(strip(raw))
                        op   == upper(toks[1])
                        size == InstrSize(op, toks)
                    IN  IF size < 0
                        THEN [ok |-> FALSE, labels |-> labs, parsed |-> prs]
                        ELSE Pass1(lines, k + 1, cnt + size, labs,
                                   Append(prs, [addr |-> cnt, op |-> op,
                                                args |-> Tail(toks)]))

\* the second loop from instruction k on
RECURSIVE Pass2(_, _, _)
Pass2(prs, k, labs) ==
    IF k > Len(prs) THEN Bytes(<< >>)
    ELSE LET e == Encode(prs[k].op, prs[k].args, labs)
         IN  IF ~e.ok THEN e
             ELSE LET t == Pass2(prs, k + 1, labs)
                  IN  IF ~t.ok THEN t ELSE Bytes(e.bytes \o t.bytes)

\* what assemble(lines) gives: whether it returned, the bytes, and the label
\* table it built
Assembled(lines) ==
    LET p1 == Pass1(lines, 1, 0, << >>, << >>)
    IN  IF ~p1.ok THEN [ok |-> FALSE, bytes |-> << >>, labels |-> << >>]
        ELSE LET p2 == Pass2(p1.parsed, 1, p1.labels)
             IN  IF ~p2.ok THEN [ok |-> FALSE, bytes |-> << >>, labels |-> << >>]
                 ELSE [ok |-> TRUE, bytes |-> p2.bytes, labels |-> p1.labels]

---------------------------------------------------------------------------
(* emulator.py: class CPU.                                                *)

\* OP of emulator.py: name -> opcode byte
OP(m) ==
    CASE m = "NOP" -> 0
      [] m = "LDI" -> 16
      [] m = "MOV" -> 17
      [] m = "STR" -> 18
      [] m = "ADD" -> 32
      [] m = "SUB" -> 33
      [] m = "JMP" -> 48
      [] m = "JZ"  -> 49
      [] m = "JNZ" -> 50
      [] m = "OUT" -> 64
      [] m = "IN"  -> 65
      [] m = "HLT" -> 255

OpNames == {"NOP", "LDI", "MOV", "STR", "ADD", "SUB", "JMP", "JZ", "JNZ", "OUT", "IN", "HLT"}

REG_A == 0
REG_B == 1

Addr == 0..(RAM_SIZE - 1)

\* CPU.__init__
CPU_init ==
    [ram     |-> [a \in Addr |-> 0],
     reg     |-> [r \in {REG_A, REG_B} |-> 0],
     pc      |-> 0,
     zero    |-> FALSE,
     running |-> FALSE,
     trace   |-> FALSE]

\* loadFrom without the wrap: a byte whose address lies past the end of
\* memory is dropped
RECURSIVE loadFrom_nowrap(_, _, _, _, _)
loadFrom_nowrap(m, data, addr, lo, hi) ==
    IF lo > hi THEN m
    ELSE IF lo = hi
    THEN IF addr + (lo - 1) \in DOMAIN m
         THEN [m EXCEPT ![addr + (lo - 1)] = And255(data[lo])]
         ELSE m
    ELSE LET mid == (lo + hi) \div 2
             first == loadFrom_nowrap(m, data, addr, lo, mid)
         IN  IF DOMAIN first = {} THEN first
             ELSE loadFrom_nowrap(first, data, addr, mid + 1, hi)

\* CPU.load_bin: the iterations of the loop for elements lo..hi of data, in
\* the loop's order: those of the first half, then those of the second.  (RAM
\* is never empty; the test on first makes TLC evaluate the first half before
\* it descends into the second, which keeps the evaluation shallow.)
RECURSIVE loadFrom(_, _, _, _, _)
loadFrom(m, data, addr, lo, hi) ==
    IF lo > hi THEN m
    ELSE IF lo = hi
    THEN [m EXCEPT ![(addr + (lo - 1)) % RAM_SIZE] = And255(data[lo])]
    ELSE LET mid == (lo + hi) \div 2
             first == loadFrom(m, data, addr, lo, mid)
         IN  IF DOMAIN first = {} THEN first
             ELSE loadFrom(first, data, addr, mid + 1, hi)

load_bin(m, data, addr) == loadFrom(m, data, addr, 1, Len(data))

\* (pc + 1) % RAM_SIZE
Inc(a) == (a + 1) % RAM_SIZE

\* What a call of step leaves behind: the CPU fields it may write, what it
\* returned ("continue" for True, "halt" for False, "fault" for an uncaught
\* IndexError), the characters it wrote and the address it reported.
Outcome(c, ret, w, unk) ==
    [ram |-> c.ram, reg |-> c.reg, pc |-> c.pc, zero |-> c.zero,
     ret |-> ret, outc |-> w, unk |-> unk]

\* self.reg[r] exists
IsReg(c, r) == r \in DOMAIN c.reg

\* After1 advancing the counter by two
After1_skip(c) == [c EXCEPT !.pc = Inc(Inc(c.pc))]

\* the two operand reads; c.pc is the address after the opcode
Operand1(c) == c.ram[c.pc]
Operand2(c) == c.ram[Inc(c.pc)]
After1(c) == [c EXCEPT !.pc = Inc(c.pc)]
After2(c) == [c EXCEPT !.pc = Inc(Inc(c.pc))]

\* SetZero that sets the flag and never clears it
SetZero_sticky(c) == [c EXCEPT !.zero = (c.zero \/ c.reg[REG_A] = 0)]

\* self.zero = (self.reg[REG_A] == 0)
SetZero(c) == [c EXCEPT !.zero = (c.reg[REG_A] = 0)]

\* ExecLDI taking the flag from the register it wrote
ExecLDI_flagFromDest(c) ==
    LET r == Operand1(c)
        imm == Operand2(c)
    IN  IF ~IsReg(c, r) THEN Outcome(After2(c), "fault", <<>>, {})
        ELSE Outcome([After2(c) EXCEPT !.reg[r] = And255(imm),
                                       !.zero = (And255(imm) = 0)],
                     "continue", <<>>, {})

ExecLDI(c) ==
    LET r == Operand1(c)
        imm == Operand2(c)
    IN  IF ~IsReg(c, r) THEN Outcome(After2(c), "fault", <<>>, {})
        ELSE Outcome(SetZero([After2(c) EXCEPT !.reg[r] = And255(imm)]),
                     "continue", <<>>, {})

ExecMOV(c) ==
    LET r == Operand1(c)
        addr == Operand2(c)
    IN  IF ~IsReg(c, r) THEN Outcome(After2(c), "fault", <<>>, {})
        ELSE Outcome(SetZero([After2(c) EXCEPT !.reg[r] = c.ram[addr]]),
                     "continue", <<>>, {})

\* ExecSTR storing one cell further on
ExecSTR_next(c) ==
    LET r == Operand1(c)
        addr == Operand2(c)
    IN  IF ~IsReg(c, r) THEN Outcome(After2(c), "fault", <<>>, {})
        ELSE Outcome([After2(c) EXCEPT !.ram[Inc(addr)] = And255(c.reg[r])],
                     "continue", <<>>, {})

ExecSTR(c) ==
    LET r == Operand1(c)
        addr == Operand2(c)
    IN  IF ~IsReg(c, r) THEN Outcome(After2(c), "fault", <<>>, {})
        ELSE Outcome([After2(c) EXCEPT !.ram[addr] = And255(c.reg[r])],
                     "continue", <<>>, {})

\* ExecADD without the reduction of the sum
ExecADD_nowrap(c) ==
    LET r1 == Operand1(c)
        r2 == Operand2(c)
    IN  IF ~IsReg(c, r1) \/ ~IsReg(c, r2) THEN Outcome(After2(c), "fault", <<>>, {})
        ELSE Outcome(SetZero([After2(c) EXCEPT !.reg[REG_A] = c.reg[r1] + c.reg[r2]]),
                     "continue", <<>>, {})

ExecADD(c) ==
    LET r1 == Operand1(c)
        r2 == Operand2(c)
    IN  IF ~IsReg(c, r1) \/ ~IsReg(c, r2) THEN Outcome(After2(c), "fault", <<>>, {})
        ELSE Outcome(SetZero([After2(c) EXCEPT
                                 !.reg[REG_A] = And255(c.reg[r1] + c.reg[r2])]),
                     "continue", <<>>, {})

ExecSUB(c) ==
    LET r1 == Operand1(c)
        r2 == Operand2(c)
    IN  IF ~IsReg(c, r1) \/ ~IsReg(c, r2) THEN Outcome(After2(c), "fault", <<>>, {})
        ELSE Outcome(SetZero([After2(c) EXCEPT
                                 !.reg[REG_A] = And255(c.reg[r1] - c.reg[r2])]),
                     "continue", <<>>, {})

ExecJMP(c) ==
    Outcome([c EXCEPT !.pc = Operand1(c) % RAM_SIZE], "continue", <<>>, {})

\* ExecJZ with the flag test inverted
ExecJZ_inverted(c) ==
    IF ~c.zero
    THEN Outcome([c EXCEPT !.pc = Operand1(c) % RAM_SIZE], "continue", <<>>, {})
    ELSE Outcome(After1(c), "continue", <<>>, {})

ExecJZ(c) ==
    IF c.zero
    THEN Outcome([c EXCEPT !.pc = Operand1(c) % RAM_SIZE], "continue", <<>>, {})
    ELSE Outcome(After1(c), "continue", <<>>, {})

ExecJNZ(c) ==
    IF ~c.zero
    THEN Outcome([c EXCEPT !.pc = Operand1(c) % RAM_SIZE], "continue", <<>>, {})
    ELSE Outcome(After1(c), "continue", <<>>, {})

\* ExecOUT writing the selector byte instead of the register
ExecOUT_selector(c) ==
    LET r == Operand1(c)
    IN  IF ~IsReg(c, r) THEN Outcome(After1(c), "fault", <<>>, {})
        ELSE Outcome(After1(c), "continue", <<chr(And255(r))>>, {})

ExecOUT(c) ==
    LET r == Operand1(c)
    IN  IF ~IsReg(c, r) THEN Outcome(After1(c), "fault", <<>>, {})
        ELSE Outcome(After1(c), "continue", <<chr(And255(c.reg[r]))>>, {})

\* ch is what sys.stdin.read(1) gave: one character, or "" at end of input
ExecIN(c, ch) ==
    LET r == Operand1(c)
        val == IF ch = "" THEN 0 ELSE ord(ch)
    IN  IF ~IsReg(c, r) THEN Outcome(After1(c), "fault", <<>>, {})
        ELSE Outcome(SetZero([After1(c) EXCEPT !.reg[r] = And255(val)]),
                     "continue", <<>>, {})

\* the address the unknown-opcode message prints: self.pc - 1, after the
\* counter advanced
ReportedAddr(c) == c.pc - 1

ExecUnknown(c) == Outcome(c, "halt", <<>>, {ReportedAddr(c)})

\* CPU.step on CPU state c0 (a record of ram, reg, pc, zero)
step(c0, ch) ==
    LET opcode == c0.ram[c0.pc]
        c == [c0 EXCEPT !.pc = Inc(c0.pc)]
    IN  CASE opcode = OP("NOP") -> Outcome(c, "continue", <<>>, {})
          [] opcode = OP("LDI") -> ExecLDI(c)
          [] opcode = OP("MOV") -> ExecMOV(c)
          [] opcode = OP("STR") -> ExecSTR(c)
          [] opcode = OP("ADD") -> ExecADD(c)
          [] opcode = OP("SUB") -> ExecSUB(c)
          [] opcode = OP("JMP") -> ExecJMP(c)
          [] opcode = OP("JZ")  -> ExecJZ(c)
          [] opcode = OP("JNZ") -> ExecJNZ(c)
          [] opcode = OP("OUT") -> ExecOUT(c)
          [] opcode = OP("IN")  -> ExecIN(c, ch)
          [] opcode = OP("HLT") -> Outcome(c, "halt", <<>>, {})
          [] OTHER -> ExecUnknown(c)

---------------------------------------------------------------------------
(* emulator.py: the monitor commands (repl) and the run loop.             *)

\* the most characters of OUT output the model keeps
MaxOut == 2

\* the most load commands in a session
MaxLoads == 1

\* the most step commands in a session
MaxSteps == 4

\* LDI B,1; LDI A,255; ADD A,B; SUB A,B; HLT
ImgArith == <<16, 1, 1, 16, 0, 255, 32, 0, 1, 33, 0, 1, 255>>

\* IN A; OUT A; STR A,128; MOV B,128; JZ 0; JNZ 16; JMP 0; NOP; HLT
ImgIO == <<65, 0, 64, 0, 18, 0, 128, 17, 1, 128, 49, 0, 50, 16, 48, 0, 0, 255>>

\* a byte that is no opcode
ImgBad == <<1>>

\* LDI with register selector 2
ImgSel == <<16, 2, 5>>

Images == {ImgArith, ImgIO, ImgBad, ImgSel}

\* load addresses: the start of RAM, and one from which an image wraps
Bases == {0, 255}

\* run addresses, as the monitor parses them: any integer
Starts == {0, -1}

\* what IN may read: end of input, or a character
Inputs == {"", "A"}

Idle ==
    [cmd |-> "none", at |-> 0, opcode |-> 0, ret |-> "none", unk |-> {},
     traced |-> FALSE, inrun |-> FALSE]

Did(c) == [Idle EXCEPT !.cmd = c]

\* the CPU fields step reads and writes
Cpu == [ram |-> ram, reg |-> reg, pc |-> pc, zero |-> zero]

\* sys.stdout.write of OUT, kept up to MaxOut characters
Written(w) == IF Len(stdout) + Len(w) <= MaxOut THEN stdout \o w ELSE stdout

\* one call of self.step() and what it leaves in the CPU and on the terminal
StepEffect(ch, inrun) ==
    LET o == step(Cpu, ch)
    IN  /\ ram' = o.ram
        /\ reg' = o.reg
        /\ pc' = o.pc
        /\ zero' = o.zero
        /\ stdout' = Written(o.outc)
        /\ last' = [cmd |-> "step", at |-> pc, opcode |-> ram[pc], ret |-> o.ret,
                    unk |-> o.unk, traced |-> trace, inrun |-> inrun]

\* monitor command: load <file> [addr]
LoadBin(data, addr) ==
    /\ ctl = "prompt"
    /\ nloads < MaxLoads
    /\ ram' = load_bin(ram, data, addr)
    /\ nloads' = nloads + 1
    /\ last' = Did("load")
    /\ UNCHANGED <<reg, pc, zero, running, trace, ctl, stdout, nsteps>>
    /\ UNCHANGED asmVars

\* monitor command: step
Step ==
    /\ ctl = "prompt"
    /\ nsteps < MaxSteps
    /\ nsteps' = nsteps + 1
    /\ \E ch \in Inputs :
          /\ StepEffect(ch, FALSE)
          /\ ctl' = IF step(Cpu, ch).ret = "fault" THEN "crashed" ELSE "prompt"
    /\ UNCHANGED <<running, trace, nloads>>
    /\ UNCHANGED asmVars

\* monitor command: run [addr]; CPU.run up to its loop
RunStart(start) ==
    /\ ctl = "prompt"
    /\ pc' = start % RAM_SIZE
    /\ trace' = trace
    /\ running' = TRUE
    /\ ctl' = "run"
    /\ last' = Did("run")
    /\ UNCHANGED <<ram, reg, zero, stdout, nloads, nsteps>>
    /\ UNCHANGED asmVars

\* RunStep with an instruction limit: the run also ends when the counter
\* leaves the last address of memory
RunStep_limited ==
    /\ ctl = "run"
    /\ \E ch \in Inputs :
          /\ StepEffect(ch, TRUE)
          /\ LET r == step(Cpu, ch).ret
                 stop == r = "halt" \/ pc = RAM_SIZE - 1
             IN  /\ ctl' = IF r = "fault" THEN "crashed"
                           ELSE IF stop THEN "prompt" ELSE "run"
                 /\ running' = IF stop THEN FALSE ELSE running
    /\ UNCHANGED <<trace, nloads, nsteps>>
    /\ UNCHANGED asmVars

\* one iteration of CPU.run's loop; on a halt, the end of run
RunStep ==
    /\ ctl = "run"
    /\ \E ch \in Inputs :
          /\ StepEffect(ch, TRUE)
          /\ LET r == step(Cpu, ch).ret
             IN  /\ ctl' = IF r = "fault" THEN "crashed"
                           ELSE IF r = "halt" THEN "prompt" ELSE "run"
                 /\ running' = IF r = "halt" THEN FALSE ELSE running
    /\ UNCHANGED <<trace, nloads, nsteps>>
    /\ UNCHANGED asmVars

\* Reset that leaves the flags as they are
Reset_keepsFlags ==
    /\ ctl = "prompt"
    /\ ram' = CPU_init.ram
    /\ reg' = CPU_init.reg
    /\ pc' = CPU_init.pc
    /\ running' = CPU_init.running
    /\ last' = Did("reset")
    /\ UNCHANGED <<zero, trace, ctl, stdout, nloads, nsteps>>
    /\ UNCHANGED asmVars

\* monitor command: reset (cpu.__init__())
Reset ==
    /\ ctl = "prompt"
    /\ ram' = CPU_init.ram
    /\ reg' = CPU_init.reg
    /\ pc' = CPU_init.pc
    /\ zero' = CPU_init.zero
    /\ running' = CPU_init.running
    /\ trace' = CPU_init.trace
    /\ last' = Did("reset")
    /\ UNCHANGED <<ctl, stdout, nloads, nsteps>>
    /\ UNCHANGED asmVars

\* monitor command: trace on/off
Trace(on) ==
    /\ ctl = "prompt"
    /\ trace' = on
    /\ last' = Did("trace")
    /\ UNCHANGED <<ram, reg, pc, zero, running, ctl, stdout, nloads, nsteps>>
    /\ UNCHANGED asmVars

\* a CPU as the emulator creates it, at the monitor's prompt
CpuFresh ==
    /\ ram = CPU_init.ram
    /\ reg = CPU_init.reg
    /\ pc = CPU_init.pc
    /\ zero = CPU_init.zero
    /\ running = CPU_init.running
    /\ trace = CPU_init.trace
    /\ ctl = "prompt"
    /\ stdout = << >>
    /\ last = Idle
    /\ nloads = 0
    /\ nsteps = 0

---------------------------------------------------------------------------
(* The emulator under its monitor.                                        *)

Init == AsmIdle /\ CpuFresh

Next ==
    \/ \E data \in Images, addr \in Bases : LoadBin(data, addr)
    \/ Step
    \/ \E start \in Starts : RunStart(start)
    \/ RunStep
    \/ Reset
    \/ \E on \in BOOLEAN : Trace(on)

Spec == Init /\ [][Next]_vars

---------------------------------------------------------------------------
(* CPU.run on a loaded image: the loop is entered and iterates until step  *)
(* returns False.  The loop has no other exit, so every iteration that is  *)
(* possible is eventually taken.                                           *)

\* loop: JMP loop
ImgLoop == <<48, 0>>

\* SUB A,A; JNZ 0; JMP 8; HLT; HLT
ImgJumps == <<33, 0, 0, 50, 0, 48, 8, 255, 255>>

RunImages == {ImgLoop, ImgJumps, ImgArith, ImgIO, ImgBad, ImgSel}

NextRun ==
    \/ \E data \in RunImages, addr \in Bases : LoadBin(data, addr)
    \/ \E start \in Starts : RunStart(start)
    \/ RunStep

SpecRun == Init /\ [][NextRun]_vars /\ WF_vars(RunStep)

---------------------------------------------------------------------------
(* The load command on a CPU that earlier commands have left in any of a  *)
(* number of states: files shorter than, as long as and longer than       *)
(* memory, at addresses inside and outside 0..255.                        *)

\* a file of 256 bytes
ImgFull == [i \in 1..256 |-> (3 * i) % 256]

\* a file of 257 bytes: its last byte falls on the cell of its first
ImgOver == [i \in 1..257 |-> i % 251]

LoadData == {<< >>, ImgArith, ImgBad, ImgFull, ImgOver}

\* load addresses as the monitor parses them: any integer
LoadBases == {0, 255, 300, -1}

\* the CPU after k calls of step
RECURSIVE StepsFrom(_, _)
StepsFrom(c, k) ==
    IF k = 0 THEN c
    ELSE LET o == step(c, "A")
         IN  StepsFrom([ram |-> o.ram, reg |-> o.reg, pc |-> o.pc, zero |-> o.zero],
                       k - 1)

\* the CPU after a load at address 0 and up to MaxSteps step commands
Stepped ==
    {StepsFrom([ram |-> load_bin(CPU_init.ram, data, 0), reg |-> CPU_init.reg,
                pc |-> CPU_init.pc, zero |-> CPU_init.zero], k) :
        data \in {ImgArith, ImgIO}, k \in 0..MaxSteps}

\* the monitor at its prompt with the CPU in one of those states; the
\* counters count the commands from here on
InitLoad ==
    /\ AsmIdle
    /\ \E c \in Stepped :
          /\ ram = c.ram
          /\ reg = c.reg
          /\ pc = c.pc
          /\ zero = c.zero
    /\ running = CPU_init.running
    /\ trace = CPU_init.trace
    /\ ctl = "prompt"
    /\ stdout = << >>
    /\ last = Idle
    /\ nloads = 0
    /\ nsteps = 0

NextLoad == \E data \in LoadData, addr \in LoadBases : LoadBin(data, addr)

SpecLoad == InitLoad /\ [][NextLoad]_vars

---------------------------------------------------------------------------
(* The assembler on every source of AsmSources.                           *)

InitAsm == (\E lines \in AsmSources : AsmEntry(lines)) /\ CpuFresh

NextAsm ==
    \/ (Pass1Line /\ UNCHANGED <<cpuVars, envVars>>)
    \/ (StartPass2 /\ UNCHANGED <<cpuVars, envVars>>)
    \/ (Pass2Instr /\ UNCHANGED <<cpuVars, envVars>>)
    \/ (AsmReturn /\ UNCHANGED <<cpuVars, envVars>>)

SpecAsm == InitAsm /\ [][NextAsm]_vars

---------------------------------------------------------------------------
(* The two tools in sequence: a source is assembled, the bytes are loaded *)
(* at address 0 of a fresh CPU, and the CPU executes one step or, for a   *)
(* whole program, runs from address 0.                                    *)

\* the decimal text of a natural number
RECURSIVE Dec(_)
Dec(n) == IF n < 10 THEN <<chr(48 + n)>> ELSE Dec(n \div 10) \o <<chr(48 + (n % 10))>>

\* The single-instruction cases: mnemonic m, operands a and b as numbers
\* (a register selector, or an immediate or address; 0 where there is none).
RoundTripCases ==
    [m : {"LDI", "MOV", "STR"}, a : {REG_A, REG_B}, b : Addr]
        \cup [m : {"ADD", "SUB"}, a : {REG_A, REG_B}, b : {REG_A, REG_B}]
        \cup [m : {"JMP", "JZ", "JNZ"}, a : Addr, b : {0}]
        \cup [m : {"OUT", "IN"}, a : {REG_A, REG_B}, b : {0}]
        \cup [m : {"NOP", "HLT"}, a : {0}, b : {0}]

MnemonicText(m) ==
    CASE m = "NOP" -> <<"N","O","P">>
      [] m = "LDI" -> <<"L","D","I">>
      [] m = "MOV" -> <<"M","O","V">>
      [] m = "STR" -> <<"S","T","R">>
      [] m = "ADD" -> <<"A","D","D">>
      [] m = "SUB" -> <<"S","U","B">>
      [] m = "JMP" -> <<"J","M","P">>
      [] m = "JZ"  -> <<"J","Z">>
      [] m = "JNZ" -> <<"J","N","Z">>
      [] m = "OUT" -> <<"O","U","T">>
      [] m = "IN"  -> <<"I","N">>
      [] m = "HLT" -> <<"H","L","T">>

RegText(r) == IF r = REG_A THEN <<"A">> ELSE <<"B">>

\* the source line of a case, as the text format writes it
CaseLine(c) ==
    CASE c.m \in {"LDI", "MOV", "STR"} ->
            MnemonicText(c.m) \o <<" ">> \o RegText(c.a) \o <<",">> \o Dec(c.b)
      [] c.m \in {"ADD", "SUB"} ->
            MnemonicText(c.m) \o <<" ">> \o RegText(c.a) \o <<",">> \o RegText(c.b)
      [] c.m \in {"JMP", "JZ", "JNZ"} -> MnemonicText(c.m) \o <<" ">> \o Dec(c.a)
      [] c.m \in {"OUT", "IN"} -> MnemonicText(c.m) \o <<" ">> \o RegText(c.a)
      [] OTHER -> MnemonicText(c.m)

CaseSource == [c \in RoundTripCases |-> <<CaseLine(c)>>]

RoundTripSources == {CaseSource[c] : c \in RoundTripCases}

\* LDI A,0
L_LDI_A0 == <<"L","D","I"," ","A",",","0">>

\* JZ skip
L_JZ_skip == <<"J","Z"," ","s","k","i","p">>

\* LDI A,1
L_LDI_A1 == <<"L","D","I"," ","A",",","1">>

\* skip:
L_skip == <<"s","k","i","p",":">>

ProgOutA == <<L_LDI_A65, L_OUT_A, L_HLT>>

ProgSkip == <<L_LDI_A0, L_JZ_skip, L_LDI_A1, L_skip, L_HLT>>

Programs == {ProgOutA, ProgSkip}

ChainSources == RoundTripSources \cup Programs

\* emulator.py main: cpu.load_bin(data, 0) with the assembler's output
ChainLoad ==
    /\ phase = "done"
    /\ result.ok
    /\ nloads = 0
    /\ LoadBin(result.bytes, 0)

\* one step of the loaded CPU
ChainStep ==
    /\ last.cmd = "load"
    /\ Step

\* emulator.py main: cpu.run(0) on a loaded program
ChainRun ==
    /\ last.cmd = "load"
    /\ src \in Programs
    /\ RunStart(0)

InitChain == (\E lines \in ChainSources : AsmEntry(lines)) /\ CpuFresh

NextChain ==
    \/ (Pass1Line /\ UNCHANGED <<cpuVars, envVars>>)
    \/ (StartPass2 /\ UNCHANGED <<cpuVars, envVars>>)
    \/ (Pass2Instr /\ UNCHANGED <<cpuVars, envVars>>)
    \/ (AsmReturn /\ UNCHANGED <<cpuVars, envVars>>)
    \/ ChainLoad
    \/ ChainStep
    \/ ChainRun
    \/ RunStep

SpecChain == InitChain /\ [][NextChain]_vars

---------------------------------------------------------------------------
(* Properties of the assembler, checked under SpecAsm.                    *)

\* the address pass 1 gave the instruction pass 2 emits next
NextAddr == IF idx <= Len(parsed) THEN parsed[idx].addr ELSE asm_pc

\* C1: for every line, the amount pass 1 advanced its counter equals the
\* number of bytes pass 2 emits for it; so whenever pass 2 is about to emit an
\* instruction (or has emitted them all), the length of the output so far is
\* the address pass 1 recorded for that point, which is also the value any
\* label defined there was bound to.
C1_Pass1CountsWhatPass2Emits ==
    phase \in {"pass2", "done"} => Len(out) = NextAddr

---------------------------------------------------------------------------

\* A line as the text format reads it: the text before the comment.
CodeOf(line) == strip(beforeSemi(line))

IsLabelLine(line) == endswith(CodeOf(line), <<":">>)

IsInstrLine(line) == tokenize(line) # <<>> /\ ~IsLabelLine(line)

MnemonicOf(line) == upper(tokenize(line)[1])

OperandsOf(line) == Tail(tokenize(line))

Mnemonics ==
    {<<"N","O","P">>, <<"L","D","I">>, <<"M","O","V">>, <<"S","T","R">>,
     <<"A","D","D">>, <<"S","U","B">>, <<"J","M","P">>, <<"J","Z">>, <<"J","N","Z">>,
     <<"O","U","T">>, <<"I","N">>, <<"H","L","T">>}

\* the labels a source defines
DefinedLabels(lines) ==
    {LabelName(CodeOf(lines[k])) : k \in {j \in 1..Len(lines) : IsLabelLine(lines[j])}}

IsRegisterToken(t) == upper(t) \in {<<"A">>, <<"B">>}

\* a character, hexadecimal or decimal literal
IsLiteralToken(t) ==
    \/ Len(t) = 3 /\ t[1] = "'" /\ t[3] = "'"
    \/ startswith(t, <<"0", "x">>) /\ Len(t) > 2 /\ \A k \in 3..Len(t) : IsHex(t[k])
    \/ isdigit(t)
    \/ startswith(t, <<"-">>) /\ isdigit(Tail(t))

IsValueToken(t, lines) == IsLiteralToken(t) \/ t \in DefinedLabels(lines)

\* the line has a mnemonic outside the table
HasUnknownMnemonic(line) ==
    IsInstrLine(line) /\ MnemonicOf(line) \notin Mnemonics \cup {DB}

\* the line has a register operand that is neither A nor B
HasUnknownRegister(line) ==
    /\ IsInstrLine(line)
    /\ LET m == MnemonicOf(line)
           a == OperandsOf(line)
       IN  \/ /\ m \in {<<"L","D","I">>, <<"M","O","V">>, <<"S","T","R">>,
                        <<"O","U","T">>, <<"I","N">>}
              /\ Len(a) >= 1
              /\ ~IsRegisterToken(a[1])
           \/ /\ m \in {<<"A","D","D">>, <<"S","U","B">>}
              /\ \E k \in 1..2 : Len(a) >= k /\ ~IsRegisterToken(a[k])

\* the line has an immediate or address operand that is neither a literal nor
\* a label of the source
HasUnknownSymbol(line, lines) ==
    /\ IsInstrLine(line)
    /\ LET m == MnemonicOf(line)
           a == OperandsOf(line)
       IN  \/ /\ m \in {<<"L","D","I">>, <<"M","O","V">>, <<"S","T","R">>}
              /\ Len(a) >= 2
              /\ ~IsValueToken(a[2], lines)
           \/ /\ m \in {<<"J","M","P">>, <<"J","Z">>, <<"J","N","Z">>}
              /\ Len(a) >= 1
              /\ ~IsValueToken(a[1], lines)

IsOffending(line, lines) ==
    \/ HasUnknownMnemonic(line)
    \/ HasUnknownRegister(line)
    \/ HasUnknownSymbol(line, lines)

\* C7: whenever some line of the source, at any position, has an unknown
\* mnemonic, an unknown register or an unknown symbol, assemble fails and
\* returns no bytes: it never returns normally from such a source.
C7_OffendingLineFailsAssembly ==
    (\E k \in 1..Len(src) : IsOffending(src[k], src)) =>
        /\ phase # "done"
        /\ ~result.ok
        /\ result.bytes = << >>

---------------------------------------------------------------------------

\* the lines before line d that pass 1 parsed as instructions
InstrLinesBefore(d) == Cardinality({j \in 1..(d - 1) : LineKind(src[j]) = "instr"})

\* the lines that define label l, as pass 1 reads them
DefLines(l) ==
    {j \in 1..Len(src) : LineKind(src[j]) = "label" /\ LabelName(src[j]) = l}

LastDef(l) == CHOOSE d \in DefLines(l) : \A e \in DefLines(l) : e <= d

\* the value of pass 1's counter at line d: the address of the first
\* instruction parsed after it, or the final count
CounterAt(d) ==
    IF InstrLinesBefore(d) < Len(parsed)
    THEN parsed[InstrLinesBefore(d) + 1].addr
    ELSE asm_pc

\* the instruction takes a value operand, and its token names a label
RefersToLabel(ins) ==
    /\ \/ ins.op \in {<<"L","D","I">>, <<"M","O","V">>, <<"S","T","R">>}
          /\ Len(ins.args) >= 2
       \/ ins.op \in {<<"J","M","P">>, <<"J","Z">>, <<"J","N","Z">>}
          /\ Len(ins.args) >= 1
    /\ LET t == IF Len(ins.args) >= 2 /\ ins.op \notin {<<"J","M","P">>, <<"J","Z">>, <<"J","N","Z">>}
                THEN ins.args[2] ELSE ins.args[1]
       IN  ~IsLiteralToken(t) /\ DefLines(t) # {}

RefToken(ins) ==
    IF ins.op \in {<<"J","M","P">>, <<"J","Z">>, <<"J","N","Z">>}
    THEN ins.args[1] ELSE ins.args[2]

\* C8: every reference to a label, before or after the definition and between
\* two definitions, emits as its operand byte the address of the label's last
\* definition: the byte pass 2 has just appended for an instruction that refers
\* to a label is the value pass 1's counter had at the last line defining it.
C8_ReferencesResolveToLastDefinition ==
    (phase \in {"pass2", "done"} /\ idx > 1 /\ RefersToLabel(parsed[idx - 1])) =>
        out[Len(out)] = And255(CounterAt(LastDef(RefToken(parsed[idx - 1]))))

\* a reference standing between two definitions of t took the later address
C8_Witness ==
    /\ src = <<L_t, L_JMP_t, L_t>>
    /\ phase = "done"
    /\ result.ok
    /\ result.bytes = <<48, 2>>

---------------------------------------------------------------------------

IsQuote(c) == c \in {"\"", "'"}

\* the text a line quotes: what stands between its first quote character and
\* the closing one that ends the line
QuotedText(line) ==
    LET c == CodeOf(line)
        q == CHOOSE k \in 1..Len(c) : IsQuote(c[k]) /\ \A j \in 1..(k - 1) : ~IsQuote(c[j])
    IN  SubSeq(c, q + 1, Len(c) - 1)

\* the bytes the text format gives a line of PoolQuote: one byte per quoted
\* character, and the opcode for HLT
QuoteLineBytes(line) ==
    IF line = L_HLT THEN <<255>>
    ELSE [k \in 1..Len(QuotedText(line)) |-> ord(QuotedText(line)[k]) % 256]

RECURSIVE QuoteBytes(_)
QuoteBytes(lines) ==
    IF lines = << >> THEN << >>
    ELSE QuoteLineBytes(Head(lines)) \o QuoteBytes(Tail(lines))

\* C13: quoted text in a DB operand is never split on a comma or a blank: a
\* source made of DB "a,b", DB ',' and DB "a b" (and HLT) assembles without
\* an error, and its output has one byte per quoted character, in order, so
\* 61 2C 62 for DB "a,b", 2C for DB ',' and 61 20 62 for DB "a b".
C13_QuotedOperandsStayWhole ==
    (\A k \in 1..Len(src) : src[k] \in PoolQuote) =>
        /\ phase # "error"
        /\ phase = "done" => result.bytes = QuoteBytes(src)

---------------------------------------------------------------------------

\* the number a literal token denotes: a character's code, a hexadecimal
\* number, or a decimal number with an optional minus sign
LiteralValue(t) ==
    IF Len(t) = 3 /\ t[1] = "'" /\ t[3] = "'" THEN ord(t[2])
    ELSE IF startswith(t, <<"0", "x">>) THEN digitsVal(SubSeq(t, 3, Len(t)), 16)
    ELSE IF t[1] = "-" THEN 0 - digitsVal(Tail(t), 10)
    ELSE digitsVal(t, 10)

\* the instruction has an immediate or address operand (for DB: a single
\* value that is no string)
TakesValue(ins) ==
    \/ ins.op \in {<<"L","D","I">>, <<"M","O","V">>, <<"S","T","R">>}
          /\ Len(ins.args) >= 2 /\ IsRegisterToken(ins.args[1])
    \/ ins.op \in {<<"J","M","P">>, <<"J","Z">>, <<"J","N","Z">>} /\ Len(ins.args) >= 1
    \/ ins.op = DB /\ Len(ins.args) = 1
          /\ \A k \in 1..Len(ins.args[1]) : ins.args[1][k] \notin {",", "\""}

\* its token
ValueToken(ins) ==
    IF ins.op \in {<<"L","D","I">>, <<"M","O","V">>, <<"S","T","R">>}
    THEN ins.args[2] ELSE ins.args[1]

\* the value the token denotes: the literal's number, or the address pass 1
\* bound the label to
Denotes(t) == IF IsLiteralToken(t) THEN LiteralValue(t) ELSE labels[t]

HasValue(t) == IsLiteralToken(t) \/ t \in DOMAIN labels

RangeError == "ValueError: bytes must be in range(0, 256)"

\* C14: every immediate or address operand is emitted as the value of its
\* token modulo 256, whether the token is a negative decimal (-1 emits 255),
\* a hexadecimal number above 0xFF (0x1FF emits 0xFF), a character literal or
\* a label whose address pass 1 counted beyond 255; pass 2 raises nothing on
\* an instruction whose operand has a value, and no range error is ever
\* raised.
C14_OperandsAreReducedModulo256 ==
    /\ result.err # RangeError
    /\ \A k \in 1..Len(out) : out[k] \in 0..255
    /\ (phase \in {"pass2", "done"} /\ idx > 1 /\ TakesValue(parsed[idx - 1])) =>
          /\ HasValue(ValueToken(parsed[idx - 1]))
          /\ out[Len(out)] = Denotes(ValueToken(parsed[idx - 1])) % 256
    /\ (phase = "error" /\ result.err # "ValueError: Unknown op"
            /\ TakesValue(parsed[idx])) =>
          ~HasValue(ValueToken(parsed[idx]))

\* the program of 3 * LongLen + 2 bytes: its label lies beyond address 255
\* and the jump to it was emitted with the address modulo 256
C14_Witness ==
    /\ src = LongProg
    /\ phase = "done"
    /\ labels[<<"b","i","g">>] = 3 * LongLen
    /\ labels[<<"b","i","g">>] > 255
    /\ result.bytes[Len(result.bytes)] = (3 * LongLen) % 256

---------------------------------------------------------------------------

\* the source with the text from the first semicolon of each line deleted
Decomment(lines) == [k \in 1..Len(lines) |-> beforeSemi(lines[k])]

\* C20: a trailing comment never changes what a source assembles to: for
\* every source, assembling it ends as assembling the source without its
\* comments does, with the same output bytes and the same label table; so
\* HLT ; stop: emits FF and defines no label, and start: ; entry defines the
\* label start.
C20_CommentsDoNotChangeAssembly ==
    (Len(src) <= MaxLines /\ phase \in {"done", "error"}) =>
        /\ (phase = "done") = Assembled(Decomment(src)).ok
        /\ phase = "done" =>
              /\ result.bytes = Assembled(Decomment(src)).bytes
              /\ labels = Assembled(Decomment(src)).labels

---------------------------------------------------------------------------
(* Properties of the emulator, checked under Spec.                        *)

Byte == 0..255

\* C3: in every state reachable by load, step, run and reset, the program
\* counter and both registers are in 0..255, and RAM has exactly 256 cells,
\* each in 0..255: sums, differences and counter advances wrap modulo 256.
C3_StateStaysInRange ==
    /\ pc \in Byte
    /\ DOMAIN reg = {REG_A, REG_B}
    /\ \A r \in DOMAIN reg : reg[r] \in Byte
    /\ DOMAIN ram = 0..255
    /\ \A a \in DOMAIN ram : ram[a] \in Byte

\* ADD has wrapped 255 + 1 to 0 in a run that entered at address 255, which
\* run(-1) reduced from -1
C3_Witness ==
    /\ last.cmd = "step"
    /\ last.opcode = 32
    /\ last.ret = "continue"
    /\ last.at < 6
    /\ ram[255] = 16
    /\ reg[REG_A] = 0
    /\ reg[REG_B] = 1

\* the opcodes whose step recomputes the flag, and those that leave it
FlagWriters == {16, 17, 32, 33, 65}
FlagKeepers == {18, 48, 49, 50, 64, 0, 255}

\* C4: right after a step that executed LDI, MOV, ADD, SUB or IN the zero flag
\* equals (register A = 0), whichever register was written; a step that
\* executed STR, JMP, JZ, JNZ, OUT, NOP or HLT leaves the flag as it was.
C4_ZeroFlagFollowsA ==
    /\ [](last.cmd = "step" /\ last.ret = "continue" /\ last.opcode \in FlagWriters
            => zero = (reg[REG_A] = 0))
    /\ [][last'.cmd = "step" /\ last'.opcode \in FlagKeepers => zero' = zero]_vars

\* LDI B,1 executed with A = 0: the flag is set although the value written
\* is not zero
C4_Witness ==
    /\ last.cmd = "step"
    /\ last.opcode = 16
    /\ last.ret = "continue"
    /\ ram[Inc(last.at)] = REG_B
    /\ reg[REG_B] = 1
    /\ reg[REG_A] = 0
    /\ zero

Opcodes == {OP(m) : m \in OpNames}

\* C5: a step that fetched, at any address p in 0..255, a byte that is no
\* opcode returns halt and reports the unknown opcode with the address p.
C5_UnknownOpcodeReportsItsAddress ==
    (last.cmd = "step" /\ last.opcode \notin Opcodes) =>
        /\ last.ret = "halt"
        /\ last.unk = {last.at}

\* C6: after any history of loads, steps and runs, reset leaves all 256 RAM
\* cells 0, both registers 0, the PC 0, the zero flag false, the CPU not
\* running and the trace off; a reset that follows a reset changes nothing.
C6_ResetGivesZeroState ==
    /\ [](last.cmd = "reset" =>
            /\ DOMAIN ram = 0..255
            /\ \A a \in 0..255 : ram[a] = 0
            /\ reg[REG_A] = 0
            /\ reg[REG_B] = 0
            /\ pc = 0
            /\ zero = FALSE
            /\ running = FALSE
            /\ trace = FALSE)
    /\ [][last.cmd = "reset" /\ last'.cmd = "reset" => UNCHANGED cpuVars]_vars

\* a reset issued in a session that has loaded an image, stepped it and
\* written output
C6_Witness ==
    /\ last.cmd = "reset"
    /\ nloads > 0
    /\ nsteps > 1
    /\ stdout # << >>

\* C16: in every state reachable from a fresh CPU by loads, steps, runs and
\* resets, a set zero flag means register A holds 0: whatever writes A
\* recomputes the flag from A, and nothing sets the flag while A is not 0.
C16_ZeroFlagImpliesAIsZero == zero => reg[REG_A] = 0

\* IN has read the end of input into A, and the flag is set
C16_Witness ==
    /\ zero
    /\ reg[REG_A] = 0
    /\ last.cmd = "step"
    /\ last.opcode = 65
    /\ last.ret = "continue"

\* C17: halted is absorbing for step: when a step has returned halt (on HLT
\* or on an unknown opcode) and the next command is a step, with no run or
\* reset between them, that step executes nothing: RAM, both registers, the
\* zero flag and the PC stay as they were.
C17_HaltedIsAbsorbing ==
    [][(last.cmd = "step" /\ last.ret = "halt" /\ last'.cmd = "step" /\ ~last'.inrun)
          => UNCHANGED <<ram, reg, pc, zero>>]_vars

\* C15: step is total: whatever RAM holds and wherever the PC stands, a
\* step returns continue or halt; it never ends in an unhandled fault, also
\* not when the register selector of LDI, MOV, STR, ADD, SUB, OUT or IN is a
\* byte other than 0 or 1, and the monitor is at its prompt or in its run
\* loop afterwards.
C15_StepIsTotal ==
    /\ last.cmd = "step" => last.ret \in {"continue", "halt"}
    /\ ctl \in {"prompt", "run"}

---------------------------------------------------------------------------
(* Properties of the load command, checked under SpecLoad.                *)

\* the indices of data, counted from 0, that a load at base puts on cell a
IndicesOn(data, base, a) == {i \in 0..(Len(data) - 1) : (base + i) % 256 = a}

\* the last of them
LastOn(data, base, a) ==
    CHOOSE i \in IndicesOn(data, base, a) : \A j \in IndicesOn(data, base, a) : j <= i

\* what the claim says a load of data at base does
LoadEffect(data, base) ==
    /\ Len(data) <= 256 =>
          \A i \in 0..(Len(data) - 1) : ram'[(base + i) % 256] = data[i + 1]
    /\ \A a \in 0..255 : IndicesOn(data, base, a) = {} => ram'[a] = ram[a]
    /\ Len(data) > 256 =>
          \A a \in 0..255 : ram'[a] = data[LastOn(data, base, a) + 1]
    /\ DOMAIN ram' = 0..255
    /\ reg' = reg
    /\ pc' = pc
    /\ zero' = zero
    /\ ctl' = "prompt"

\* C12: a load of at most 256 bytes at any base sets RAM[(base + i) mod 256]
\* to data[i] for every index i, wrapping past 255 to 0, and leaves every
\* other cell, both registers, the PC and the zero flag as they were; a load
\* of more than 256 bytes leaves in each cell the last byte written to it,
\* and raises no error.
C12_LoadWritesOnlyItsCells ==
    [][\A data \in LoadData, base \in LoadBases :
          LoadBin(data, base) => LoadEffect(data, base)]_vars

\* the 257-byte file loaded at 255 on a CPU that has executed LDI B,1: cell
\* 255 holds the last byte, not the first, and the registers and PC stayed
C12_Witness ==
    /\ last.cmd = "load"
    /\ ram[255] = ImgOver[257]
    /\ ram[255] # ImgOver[1]
    /\ ram[0] = ImgOver[2]
    /\ reg[REG_B] = 1
    /\ pc = 3

---------------------------------------------------------------------------
(* Properties of the run loop, checked under SpecRun.                     *)

\* the bytes whose fetch as an opcode ends a run: HLT and every byte outside
\* the opcode table
IsHalting(b) == b = 255 \/ b \notin Opcodes

\* RAM of a fresh CPU with an image loaded at address 0
ImageAt0(data) == [a \in 0..255 |-> IF a < Len(data) THEN data[a + 1] ELSE 0]

\* C11: run returns if and only if a step of the run fetches HLT or a byte
\* outside the opcode table: it returns at that step and at no other, with the
\* running flag false; there is no instruction limit, so a run over all-zero
\* RAM (the PC wrapping from 255 to 0 over NOPs) and a run of JMP 0 at address
\* 0 never return, while a run of a program that reaches its HLT does return.
C11_RunReturnsExactlyOnHalt ==
    /\ [][(ctl = "run" /\ ctl' = "prompt") =>
            /\ last'.cmd = "step"
            /\ IsHalting(last'.opcode)
            /\ running' = FALSE]_vars
    /\ [][(ctl = "run" /\ last'.cmd = "step" /\ IsHalting(last'.opcode)) =>
            ctl' = "prompt"]_vars
    /\ []((ctl = "run" /\ ram = CPU_init.ram) => [](ctl = "run" /\ running))
    /\ []((ctl = "run" /\ ram = ImageAt0(ImgLoop) /\ pc = 0) =>
            [](ctl = "run" /\ running))
    /\ ((ctl = "run" /\ ram = ImageAt0(ImgArith) /\ pc = 0) ~>
            (ctl = "prompt" /\ ~running /\ last.opcode = 255))

\* a run over all-zero RAM has executed the NOP at address 255 and goes on at
\* address 0
C11_Witness ==
    /\ ctl = "run"
    /\ running
    /\ ram = CPU_init.ram
    /\ last.cmd = "step"
    /\ last.inrun
    /\ last.at = 255
    /\ pc = 0

---------------------------------------------------------------------------
(* Properties of the assembler and the emulator together, checked under   *)
(* SpecChain.                                                             *)

\* RAM of a fresh CPU after the assembled bytes were loaded at address 0
LoadedRam == [x \in 0..255 |-> IF x < Len(result.bytes) THEN result.bytes[x + 1] ELSE 0]

\* the number of operand bytes of each mnemonic (section 4.1)
OperandCount(m) ==
    CASE m \in {"LDI", "MOV", "STR", "ADD", "SUB"} -> 2
      [] m \in {"JMP", "JZ", "JNZ", "OUT", "IN"} -> 1
      [] OTHER -> 0

\* the values IN may store
InValues == {IF ch = "" THEN 0 ELSE ord(ch) : ch \in Inputs}

\* What section 4.3 prescribes for one step of case c on a fresh CPU (both
\* registers 0, flag clear) whose RAM holds the instruction at address 0.
Prescribed(c) ==
    /\ last.at = 0
    /\ last.ret = IF c.m = "HLT" THEN "halt" ELSE "continue"
    /\ last.unk = {}
    /\ Len(result.bytes) = 1 + OperandCount(c.m)
    /\ ram = IF c.m = "STR" THEN [LoadedRam EXCEPT ![c.b] = 0] ELSE LoadedRam
    /\ pc = CASE c.m = "JMP" -> c.a
              [] c.m = "JNZ" -> c.a
              [] OTHER -> 1 + OperandCount(c.m)
    /\ reg = CASE c.m = "LDI" -> [r \in {0, 1} |-> IF r = c.a THEN c.b ELSE 0]
               [] c.m = "MOV" -> [r \in {0, 1} |-> IF r = c.a THEN LoadedRam[c.b] ELSE 0]
               [] c.m = "IN"  -> [r \in {0, 1} |-> IF r = c.a THEN reg[c.a] ELSE 0]
               [] OTHER -> [r \in {0, 1} |-> 0]
    /\ c.m = "IN" => reg[c.a] \in InValues
    /\ zero = IF c.m \in {"LDI", "MOV", "ADD", "SUB", "IN"} THEN reg[0] = 0 ELSE FALSE
    /\ stdout = IF c.m = "OUT" THEN <<chr(0)>> ELSE << >>

\* C2: for each of the 12 mnemonics and every operand choice (registers A and
\* B, immediates and addresses 0..255), the single instruction assembles, and
\* one step on a fresh CPU loaded with its bytes at address 0 yields the
\* registers, flag, PC, RAM and output section 4.3 prescribes, consuming as
\* many bytes as were emitted.
C2_AssembledInstructionExecutesAsPrescribed ==
    /\ src \in RoundTripSources => phase # "error"
    /\ (src \in RoundTripSources /\ last.cmd = "step") =>
          \A c \in RoundTripCases : src = CaseSource[c] => Prescribed(c)

\* JZ 200 assembled and stepped on a fresh CPU: the branch is not taken
C2_Witness ==
    /\ src = CaseSource[[m |-> "JZ", a |-> 200, b |-> 0]]
    /\ last.cmd = "step"
    /\ pc = 2

\* the run of an assembled program has returned
RunReturned == last.cmd = "step" /\ last.inrun /\ ctl = "prompt"

\* C9: LDI A,65 / OUT A / HLT assembles to exactly 10 00 41 40 00 FF, and
\* running it from 0 on a fresh CPU writes exactly one character, A, and
\* halts with register A = 65 and the zero flag false.
C9_ProgramPrintsA ==
    src = ProgOutA =>
        /\ phase # "error"
        /\ phase = "done" => result.bytes = <<16, 0, 65, 64, 0, 255>>
        /\ stdout \in {<< >>, <<"A">>}
        /\ ctl # "crashed"
        /\ RunReturned =>
              /\ last.ret = "halt"
              /\ last.opcode = 255
              /\ stdout = <<"A">>
              /\ reg[REG_A] = 65
              /\ zero = FALSE

C9_Witness == src = ProgOutA /\ RunReturned /\ stdout = <<"A">>

\* C10: LDI A,0 / JZ skip / LDI A,1 / skip: / HLT, run from 0 on a fresh CPU,
\* takes the JZ branch, never executes the third instruction (at address 5)
\* and halts with register A = 0.
C10_BranchSkipsThirdInstruction ==
    src = ProgSkip =>
        /\ phase # "error"
        /\ ctl # "crashed"
        /\ (last.cmd = "step" /\ last.inrun) =>
              /\ last.at # 5
              /\ reg[REG_A] = 0
              /\ (last.at = 3 => last.opcode = 49 /\ pc = 8)
        /\ RunReturned => last.ret = "halt" /\ last.opcode = 255 /\ last.at = 8

C10_Witness == src = ProgSkip /\ RunReturned /\ reg[REG_A] = 0 /\ pc = 9

---------------------------------------------------------------------------
(* Properties of one step, checked on the steps of the run loop under     *)
(* SpecRun.  In the formulas below the unprimed variables are the CPU     *)
(* before the step and the primed ones the CPU after it.                  *)

\* the address p of the opcode, and the bytes at (p+1) mod 256 and (p+2) mod 256
OperandA == ram[(pc + 1) % 256]
OperandB == ram[(pc + 2) % 256]

\* the PC the claim gives a step whose opcode op was fetched at pc
PcAfter(op) ==
    CASE op \in {16, 17, 18, 32, 33} -> (pc + 3) % 256
      [] op \in {64, 65} -> (pc + 2) % 256
      [] op = 48 -> OperandA
      [] op = 49 -> IF zero THEN OperandA ELSE (pc + 2) % 256
      [] op = 50 -> IF ~zero THEN OperandA ELSE (pc + 2) % 256
      [] OTHER -> (pc + 1) % 256

\* the operands a returning step used are the bytes after the opcode
UsesOperands(op) ==
    /\ op = 16 => reg'[OperandA] = OperandB
    /\ op = 17 => reg'[OperandA] = ram[OperandB]
    /\ op = 18 => ram'[OperandB] = reg[OperandA]
    /\ op = 32 => reg'[REG_A] = (reg[OperandA] + reg[OperandB]) % 256
    /\ op = 33 => reg'[REG_A] = (reg[OperandA] - reg[OperandB]) % 256
    /\ op = 64 => (Len(stdout) < MaxOut => stdout' = Append(stdout, chr(reg[OperandA])))
    /\ op = 65 => reg'[OperandA] \in InValues

\* C18: a step that fetches its opcode at p reads its operands at (p+1) mod
\* 256 and (p+2) mod 256, also when p is 254 or 255, and leaves the PC at
\* (p+n) mod 256 with n = 1 for NOP, HLT and unknown opcodes, 2 for JZ, JNZ,
\* OUT and IN, 3 for LDI, MOV, STR, ADD and SUB, unless a jump is taken: JMP,
\* and JZ and JNZ when their test passes, leave the PC at the operand byte.
C18_OperandsAndPcWrap ==
    [][last'.cmd = "step" =>
          /\ last'.at = pc
          /\ last'.opcode = ram[pc]
          /\ pc' = PcAfter(ram[pc])
          /\ last'.ret = "continue" => UsesOperands(ram[pc])]_vars

\* LDI at address 255 took its operands B and 1 from addresses 0 and 1, and
\* the PC stands at 2
C18_Witness ==
    /\ last.cmd = "step"
    /\ last.at = 255
    /\ last.opcode = 16
    /\ ram[0] = REG_B
    /\ ram[1] = 1
    /\ reg[REG_B] = 1
    /\ pc = 2

\* C19: step writes RAM only through STR: a step executing STR reg,addr
\* changes exactly the cell RAM[addr], to the value of the register, and the
\* PC, and leaves both registers and the zero flag as they were; a step
\* executing any other byte leaves all of RAM as it was; NOP and HLT change
\* nothing but the PC.
C19_OnlyStrWritesRam ==
    [][last'.cmd = "step" =>
          /\ (ram[pc] = 18 /\ last'.ret = "continue") =>
                /\ ram' = [ram EXCEPT ![OperandB] = reg[OperandA]]
                /\ reg' = reg
                /\ zero' = zero
          /\ (ram[pc] # 18 \/ last'.ret # "continue") => ram' = ram
          /\ ram[pc] \in {0, 255} =>
                /\ reg' = reg
                /\ zero' = zero
                /\ stdout' = stdout
                /\ trace' = trace]_vars

\* STR A,128 has stored the character that IN read: cell 128 holds it, and A
\* and the flag are as before
C19_Witness ==
    /\ last.cmd = "step"
    /\ last.opcode = 18
    /\ last.ret = "continue"
    /\ ram[Inc(Inc(last.at))] = 128
    /\ ram[128] = 65
    /\ reg[REG_A] = 65
    /\ ~zero

===========================================================================
